---------------------------- MODULE Spec2Model ----------------------------
(***************************************************************************)
(* A model of src/three_tangle.py: the multi-start search driver of        *)
(* three_tangle (lines 119-147) as a state machine, and its nested pure    *)
(* functions real_to_complex, complex_to_real, theoretical_tangle and      *)
(* cons3 as operators applied by the actions of their own specifications.  *)
(*                                                                         *)
(* Floating-point reals are modelled by integers and complex numbers by    *)
(* Gaussian integers (records [re, im]); numpy's inf is a separate value.  *)
(* NaN and rounding are outside the model.  Python's 0-based indices are   *)
(* kept wherever the source indexes an array (tangles, phi, rho, c);       *)
(* flat vectors that the source only slices are TLA+ sequences.            *)
(***************************************************************************)
EXTENDS Integers, Sequences, FiniteSets

VARIABLES
  N,        \* three_tangle's parameter N: the number of starts
  j,        \* the loop variable of line 121
  pc,       \* the driver's position: "loop", "solve", "discard", "done", "raised"
  tangles,  \* the array of line 120, indices 0..N-1
  outs,     \* history: the outcome of the solver call of each start so far
  calls,    \* history: the number of calls of minimize so far
  result,   \* the value returned by line 147
  z,        \* codec: a real input vector
  w,        \* codec: a complex input vector
  codec,    \* codec: the last operation applied and what it produced
  phi,      \* theoretical_tangle: the 8 amplitudes, indices 0..7
  tau,      \* theoretical_tangle: the value returned, or "none" before the call
  Nc,       \* cons3: three_tangle's parameter Nc
  Np,       \* cons3: three_tangle's parameter Np
  x,        \* cons3: the parameter vector
  rho,      \* cons3: the density matrix, indices (0..Nc-1, 0..Nc-1)
  direct,   \* cons3: whether rho was built directly from the weights and vectors of x
  cons      \* cons3: what the call produced, or "none" before the call

driverVars == <<N, j, pc, tangles, outs, calls, result>>
codecVars  == <<z, w, codec>>
tangleVars == <<phi, tau>>
consVars   == <<Nc, Np, x, rho, direct, cons>>
vars == <<driverVars, codecVars, tangleVars, consVars>>

-----------------------------------------------------------------------------
(* Bounds of the model *)

MaxN == 3          \* starts per call: N ranges over 0..MaxN
MaxVal == 2        \* the solver's 'fun' ranges over -MaxVal..MaxVal
MaxVecLen == 5     \* codec: real input vectors have length 0..MaxVecLen
MaxCLen == 2       \* codec: complex input vectors have length 0..MaxCLen
MaxSupport == 2    \* tangle: at most this many of the 8 amplitudes are nonzero
MaxNc == 2         \* cons3: Nc ranges over 1..MaxNc
MaxNp == 3         \* cons3: Np ranges over 1..MaxNp

-----------------------------------------------------------------------------
(* Values of a float64 cell: a finite number or numpy's inf *)

Fin(n) == [inf |-> FALSE, v |-> n]
Inf == [inf |-> TRUE, v |-> 0]

\* a < b on float64 values, np.inf above every finite value
Less(a, b) == IF a.inf THEN FALSE ELSE IF b.inf THEN TRUE ELSE a.v < b.v
LessEq(a, b) == ~Less(b, a)

\* a call outcome of minimize(...)['fun']: a value, or an exception
Returned(n) == [kind |-> "fun", v |-> n]
Raised == [kind |-> "raise", v |-> 0]
SolverValues == (-MaxVal)..MaxVal


-----------------------------------------------------------------------------
(* The reduction of line 147 *)

\* tangles = np.zeros(N)
np_zeros(n) == [i \in 0..(n - 1) |-> Fin(0)]

\* the first n cells of an array: the array a call with n starts fills
Prefix(t, n) == [i \in 0..(n - 1) |-> t[i]]

RECURSIVE MinUpto(_, _)
MinUpto(t, n) ==
  IF n = 1 THEN t[0]
  ELSE LET m == MinUpto(t, n - 1)
       IN IF Less(t[n - 1], m) THEN t[n - 1] ELSE m

RECURSIVE MaxUpto(_, _)
MaxUpto(t, n) ==
  IF n = 1 THEN t[0]
  ELSE LET m == MaxUpto(t, n - 1)
       IN IF Less(m, t[n - 1]) THEN t[n - 1] ELSE m

\* a slip of np.max for np.min
np_max(t) == MaxUpto(t, Cardinality(DOMAIN t))

\* np.min of a non-empty array
np_min(t) == MinUpto(t, Cardinality(DOMAIN t))

-----------------------------------------------------------------------------
(* The multi-start search driver, lines 119-147 *)

InitDriver ==
  /\ N \in 0..MaxN
  /\ j = 0
  /\ pc = "loop"
  /\ tangles = np_zeros(N)
  /\ outs = <<>>
  /\ calls = 0
  /\ result = "none"

\* no call of three_tangle is in progress
IdleDriver ==
  /\ N = 0
  /\ j = 0
  /\ pc = "off"
  /\ tangles = np_zeros(0)
  /\ outs = <<>>
  /\ calls = 0
  /\ result = "none"

\* lines 121-134: the loop takes its next index and builds the random x0
GenerateStart ==
  /\ pc = "loop"
  /\ j < N
  /\ pc' = "solve"
  /\ UNCHANGED <<N, j, tangles, outs, calls, result>>

\* lines 137-139: minimize returns and its 'fun' is stored in tangles[j]
SolveReturns ==
  /\ pc = "solve"
  /\ \E v \in SolverValues :
       /\ tangles' = [tangles EXCEPT ![j] = Fin(v)]
       /\ outs' = Append(outs, Returned(v))
  /\ calls' = calls + 1
  /\ pc' = "discard"
  /\ UNCHANGED <<N, j, result>>

\* the exception of minimize leaves the loop and the function
SolveRaisesAborts ==
  /\ pc = "solve"
  /\ outs' = Append(outs, Raised)
  /\ calls' = calls + 1
  /\ pc' = "raised"
  /\ UNCHANGED <<N, j, tangles, result>>

\* lines 137-141: minimize raises; except: pass stores nothing in tangles[j]
SolveRaises ==
  /\ pc = "solve"
  /\ outs' = Append(outs, Raised)
  /\ calls' = calls + 1
  /\ pc' = "discard"
  /\ UNCHANGED <<N, j, tangles, result>>

\* the test of line 144 left out
DiscardNothing ==
  /\ pc = "discard"
  /\ j' = j + 1
  /\ pc' = "loop"
  /\ UNCHANGED <<N, tangles, outs, calls, result>>

\* lines 144-145: a negative tangles[j] becomes np.inf; the loop moves on
DiscardNegative ==
  /\ pc = "discard"
  /\ tangles' = IF Less(tangles[j], Fin(0))
                  THEN [tangles EXCEPT ![j] = Inf]
                  ELSE tangles
  /\ j' = j + 1
  /\ pc' = "loop"
  /\ UNCHANGED <<N, outs, calls, result>>

\* line 147: the loop is over; np.min of an empty array raises ValueError
ReturnMin ==
  /\ pc = "loop"
  /\ j = N
  /\ IF N = 0
       THEN pc' = "raised" /\ UNCHANGED result
       ELSE pc' = "done" /\ result' = np_min(tangles)
  /\ UNCHANGED <<N, j, tangles, outs, calls>>

-----------------------------------------------------------------------------
(* Complex numbers with integer parts, and what a call produces *)

Cx(a, b) == [re |-> a, im |-> b]
CReal(a) == Cx(a, 0)
CZero == Cx(0, 0)
ImagUnit == Cx(0, 1)                      \* Python's 1j
CAdd(a, b) == Cx(a.re + b.re, a.im + b.im)
CSub(a, b) == Cx(a.re - b.re, a.im - b.im)
CMul(a, b) == Cx(a.re * b.re - a.im * b.im, a.re * b.im + a.im * b.re)
CConj(a) == Cx(a.re, 0 - a.im)            \* np.conj

\* a call that returns v, and a call that raises the exception e
Ok(v) == [raised |-> "none", val |-> v]
Raise(e) == [raised |-> e, val |-> <<>>]

\* Python's x[a:b] on a sequence, indices from 0, the end clipped
Slice(s, a, b) == SubSeq(s, a + 1, IF b < Len(s) THEN b ELSE Len(s))

-----------------------------------------------------------------------------
(* The vector codec, lines 28-32 *)

\* lo[i] + 1j * hi[i], the real operands promoted to complex
AddImag(lo, hi) == CAdd(CReal(lo), CMul(ImagUnit, CReal(hi)))

\* a codec that pairs neighbouring entries (interleaved real and imaginary parts)
real_to_complex_interleaved(v) ==
  IF Len(v) % 2 = 0
    THEN Ok([i \in 1..(Len(v) \div 2) |-> AddImag(v[2 * i - 1], v[2 * i])])
    ELSE Raise("ValueError")

\* line 29: z[:len(z) // 2] + 1j * z[len(z) // 2:], the + under numpy's
\* broadcasting: equal lengths add elementwise, a length-1 operand is
\* stretched to the other's length, any other pair of lengths raises
real_to_complex(v) ==
  LET h == Len(v) \div 2
      lo == Slice(v, 0, h)
      hi == Slice(v, h, Len(v))
  IN IF Len(lo) = Len(hi)
       THEN Ok([i \in 1..Len(lo) |-> AddImag(lo[i], hi[i])])
     ELSE IF Len(lo) = 1
       THEN Ok([i \in 1..Len(hi) |-> AddImag(lo[1], hi[i])])
     ELSE IF Len(hi) = 1
       THEN Ok([i \in 1..Len(lo) |-> AddImag(lo[i], hi[1])])
     ELSE Raise("ValueError")

\* line 32: np.concatenate((np.real(z), np.imag(z)))
complex_to_real(c) ==
  [i \in 1..Len(c) |-> c[i].re] \o [i \in 1..Len(c) |-> c[i].im]

RealVals == {-1, 0, 1}
CVals == {Cx(a, b) : a \in RealVals, b \in RealVals}
RealVecs == UNION {[1..n -> RealVals] : n \in 0..MaxVecLen}
CVecs == UNION {[1..n -> CVals] : n \in 0..MaxCLen}

IdleCodec == z = <<>> /\ w = <<>> /\ codec = [op |-> "off", out |-> Ok(<<>>)]

InitCodec ==
  /\ \/ z \in RealVecs /\ w = <<>>
     \/ z = <<>> /\ w \in CVecs
  /\ codec = [op |-> "none", out |-> Ok(<<>>)]

\* a call real_to_complex(z)
ToComplex ==
  /\ codec.op = "none"
  /\ codec' = [op |-> "real_to_complex", out |-> real_to_complex(z)]
  /\ UNCHANGED <<z, w>>

\* a call complex_to_real(w)
ToReal ==
  /\ codec.op = "none"
  /\ codec' = [op |-> "complex_to_real", out |-> Ok(complex_to_real(w))]
  /\ UNCHANGED <<z, w>>

\* a call complex_to_real(real_to_complex(z)); an exception of the inner call
\* is the outcome of the whole
RoundTripReal ==
  /\ codec.op = "none"
  /\ LET c == real_to_complex(z)
     IN codec' = [op |-> "rt_real",
                  out |-> IF c.raised = "none" THEN Ok(complex_to_real(c.val)) ELSE c]
  /\ UNCHANGED <<z, w>>

\* a call real_to_complex(complex_to_real(w))
RoundTripComplex ==
  /\ codec.op = "none"
  /\ codec' = [op |-> "rt_complex", out |-> real_to_complex(complex_to_real(w))]
  /\ UNCHANGED <<z, w>>

-----------------------------------------------------------------------------
(* The analytic tangle evaluator, lines 34-43 *)

\* the integer square root, rounded down: exact on perfect squares
ISqrt(n) == CHOOSE r \in 0..n : r * r <= n /\ (r + 1) * (r + 1) > n

\* np.abs of a complex number; exact whenever the modulus is an integer
np_abs(c) == ISqrt(c.re * c.re + c.im * c.im)

CSq(a) == CMul(a, a)                      \* a ** 2
CMul4(a, b, c, d) == CMul(CMul(CMul(a, b), c), d)
CScale(n, a) == Cx(n * a.re, n * a.im)    \* n * a for a real n

\* an index slip in the first term of d1: phi[0] for phi[7]
theoretical_tangle_slip(f) ==
  LET d1 == CAdd(CAdd(CAdd(CMul(CSq(f[0]), CSq(f[0])), CMul(CSq(f[1]), CSq(f[6]))),
                      CMul(CSq(f[2]), CSq(f[5]))), CMul(CSq(f[4]), CSq(f[3])))
      d2 == CAdd(CAdd(CAdd(CAdd(CAdd(CMul4(f[0], f[7], f[3], f[4]),
                                     CMul4(f[0], f[7], f[5], f[2])),
                                CMul4(f[0], f[7], f[6], f[1])),
                           CMul4(f[3], f[4], f[5], f[2])),
                      CMul4(f[3], f[4], f[6], f[1])),
                 CMul4(f[5], f[2], f[6], f[1]))
      d3 == CAdd(CMul4(f[0], f[6], f[5], f[3]), CMul4(f[7], f[1], f[2], f[4]))
  IN 4 * np_abs(CAdd(CSub(d1, CScale(2, d2)), CScale(4, d3)))

\* lines 35-43
theoretical_tangle(f) ==
  LET d1 == CAdd(CAdd(CAdd(CMul(CSq(f[0]), CSq(f[7])), CMul(CSq(f[1]), CSq(f[6]))),
                      CMul(CSq(f[2]), CSq(f[5]))), CMul(CSq(f[4]), CSq(f[3])))
      d2 == CAdd(CAdd(CAdd(CAdd(CAdd(CMul4(f[0], f[7], f[3], f[4]),
                                     CMul4(f[0], f[7], f[5], f[2])),
                                CMul4(f[0], f[7], f[6], f[1])),
                           CMul4(f[3], f[4], f[5], f[2])),
                      CMul4(f[3], f[4], f[6], f[1])),
                 CMul4(f[5], f[2], f[6], f[1]))
      d3 == CAdd(CMul4(f[0], f[6], f[5], f[3]), CMul4(f[7], f[1], f[2], f[4]))
  IN 4 * np_abs(CAdd(CSub(d1, CScale(2, d2)), CScale(4, d3)))

\* amplitudes of modulus 1, and the states with few nonzero amplitudes
Units == {Cx(1, 0), Cx(-1, 0), Cx(0, 1), Cx(0, -1)}
Supports == {S \in SUBSET (0..7) : Cardinality(S) <= MaxSupport}
Amplitudes ==
  UNION {{[i \in 0..7 |-> IF i \in S THEN g[i] ELSE CZero] : g \in [S -> Units]} :
         S \in Supports}

\* the computational basis state e_k
BasisState(k) == [i \in 0..7 |-> IF i = k THEN Cx(1, 0) ELSE CZero]

IdleTangle == phi = BasisState(0) /\ tau = [done |-> FALSE, v |-> 0]

InitTangle == phi \in Amplitudes /\ tau = [done |-> FALSE, v |-> 0]

\* a call theoretical_tangle(phi)
EvalTangle ==
  /\ ~tau.done
  /\ tau' = [done |-> TRUE, v |-> theoretical_tangle(phi)]
  /\ UNCHANGED phi

-----------------------------------------------------------------------------
(* The reconstruction constraint, lines 68-89 *)

\* lines 72-73, state k: real_to_complex(x[j:j + 2 * Nc]) with j = Np + k * 2 * Nc
StateBlock(xx, nc, np, k) ==
  real_to_complex(Slice(xx, np + k * 2 * nc, np + k * 2 * nc + 2 * nc)).val

\* lines 70-73: c = np.zeros((Nc, Nc)), then rows 0..Np-1 are assigned;
\* entry c[k, i] of the array after the loop
CRows(xx, nc, np) ==
  [k \in 0..(nc - 1) |->
     [i \in 0..(nc - 1) |-> IF k < np THEN StateBlock(xx, nc, np, k)[i + 1] ELSE CZero]]

\* lines 79-81: res after the loop over k in range(n)
RECURSIVE SumStates(_, _, _, _, _)
SumStates(p, c, i, jj, n) ==
  IF n = 0 THEN CZero
  ELSE CAdd(SumStates(p, c, i, jj, n - 1),
            CMul(CMul(CReal(p[n]), c[n - 1][i]), CConj(c[n - 1][jj])))

\* lines 68-89.  Line 73 assigns row i of an Nc x Nc array for every
\* i in range(Np): for Np > Nc the assignment of row Nc raises IndexError.
cons3(xx, rr, nc, np) ==
  IF np > nc THEN Raise("IndexError")
  ELSE LET p == Slice(xx, 0, np)
           c == CRows(xx, nc, np)
           res(i, jj) == CSub(SumStates(p, c, i, jj, np), rr[i][jj])
           reals == [n \in 0..(nc * nc - 1) |-> res(n \div nc, n % nc).re]
           imags == [n \in 0..(nc * nc - 1) |-> res(n \div nc, n % nc).im]
       IN Ok([n \in 0..(2 * nc * nc - 1) |->
                IF n < nc * nc THEN reals[n] ELSE imags[n - nc * nc]])

\* lines 125-134: x0 = p, then complex_to_real(c) appended for each state
RECURSIVE Encode(_, _, _)
Encode(p, cs, n) ==
  IF n = 0 THEN p ELSE Encode(p, cs, n - 1) \o complex_to_real(cs[n])

\* the density matrix of weights p and states cs, built directly:
\* rho[i][jj] = sum over k of p_k * c_k[i] * conj(c_k[jj])
RECURSIVE DirectSum(_, _, _, _, _)
DirectSum(p, cs, i, jj, n) ==
  IF n = 0 THEN CZero
  ELSE CAdd(DirectSum(p, cs, i, jj, n - 1),
            CMul(CReal(p[n]), CMul(cs[n][i + 1], CConj(cs[n][jj + 1]))))

DirectRho(p, cs, nc, np) ==
  [i \in 0..(nc - 1) |-> [jj \in 0..(nc - 1) |-> DirectSum(p, cs, i, jj, np)]]

ZeroRho(nc) == [i \in 0..(nc - 1) |-> [jj \in 0..(nc - 1) |-> CZero]]

\* a matrix whose entries all differ, neither Hermitian nor real
TaggedRho(nc) == [i \in 0..(nc - 1) |-> [jj \in 0..(nc - 1) |-> Cx(i * nc + jj + 1, i - jj + 1)]]

Weights == {0, 1}
StateAmps == {Cx(0, 0), Cx(1, 0), Cx(0, 1)}

IdleCons ==
  /\ Nc = 1 /\ Np = 1
  /\ x = <<0, 0, 0>>
  /\ rho = ZeroRho(1)
  /\ direct = "zero"
  /\ cons = [done |-> FALSE, out |-> Ok(<<>>)]

InitCons ==
  /\ Nc \in 1..MaxNc
  /\ Np \in 1..MaxNp
  /\ \E p \in [1..Np -> Weights] : \E cs \in [1..Np -> [1..Nc -> StateAmps]] :
       /\ x = Encode(p, cs, Np)
       /\ \/ direct = "direct" /\ rho = DirectRho(p, cs, Nc, Np)
          \/ direct = "zero" /\ rho = ZeroRho(Nc)
          \/ direct = "tagged" /\ rho = TaggedRho(Nc)
  /\ cons = [done |-> FALSE, out |-> Ok(<<>>)]

\* a call cons3(x)
EvalCons3 ==
  /\ ~cons.done
  /\ cons' = [done |-> TRUE, out |-> cons3(x, rho, Nc, Np)]
  /\ UNCHANGED <<Nc, Np, x, rho, direct>>

-----------------------------------------------------------------------------
(* Specifications *)

Init == InitDriver /\ IdleCodec /\ IdleTangle /\ IdleCons

Next ==
  \/ GenerateStart /\ UNCHANGED <<codecVars, tangleVars, consVars>>
  \/ SolveReturns /\ UNCHANGED <<codecVars, tangleVars, consVars>>
  \/ SolveRaises /\ UNCHANGED <<codecVars, tangleVars, consVars>>
  \/ DiscardNegative /\ UNCHANGED <<codecVars, tangleVars, consVars>>
  \/ ReturnMin /\ UNCHANGED <<codecVars, tangleVars, consVars>>

\* three_tangle called with N starts
Spec == Init /\ [][Next]_vars

\* the interpreter keeps running the call, and every solver call ends
\* (it returns or raises within its iteration budget)
FairSpec == Spec /\ WF_vars(Next)

\* the codec applied to a real or a complex vector
CodecInit == IdleDriver /\ InitCodec /\ IdleTangle /\ IdleCons

CodecNext ==
  \/ ToComplex /\ UNCHANGED <<driverVars, tangleVars, consVars>>
  \/ ToReal /\ UNCHANGED <<driverVars, tangleVars, consVars>>
  \/ RoundTripReal /\ UNCHANGED <<driverVars, tangleVars, consVars>>
  \/ RoundTripComplex /\ UNCHANGED <<driverVars, tangleVars, consVars>>

SpecCodec == CodecInit /\ [][CodecNext]_vars

\* theoretical_tangle applied to 8 amplitudes
TangleInit == IdleDriver /\ IdleCodec /\ InitTangle /\ IdleCons

TangleNext == EvalTangle /\ UNCHANGED <<driverVars, codecVars, consVars>>

SpecTangle == TangleInit /\ [][TangleNext]_vars

\* cons3 applied to a parameter vector
ConsInit == IdleDriver /\ IdleCodec /\ IdleTangle /\ InitCons

ConsNext == EvalCons3 /\ UNCHANGED <<driverVars, codecVars, tangleVars>>

SpecCons == ConsInit /\ [][ConsNext]_vars

-----------------------------------------------------------------------------
(* Properties of the search driver *)

\* start i (0-based) is complete: its solver call and its line-144 test are over
Complete(i) == i < j

Failed(i) == outs[i + 1].kind = "raise"
Negative(i) == outs[i + 1].kind = "fun" /\ outs[i + 1].v < 0
Converged(i) == outs[i + 1].kind = "fun" /\ outs[i + 1].v >= 0

\* the function and the model agree on what is in flight
DriverTypeOK ==
  /\ Len(outs) = calls
  /\ pc \in {"loop", "solve", "discard", "done", "raised"}
  /\ DOMAIN tangles = 0..(N - 1)
  /\ j \in 0..N

\* C1: for every start whose solver call raised, the value recorded in
\* tangles for that start is infinity.
C1_FailedStartRecordsInf ==
  \A i \in 0..(N - 1) : (Complete(i) /\ Failed(i)) => tangles[i] = Inf

\* What the code records for a failed start: the zero np.zeros put there.
FailedStartKeepsZero ==
  \A i \in 0..(N - 1) : (Complete(i) /\ Failed(i)) => tangles[i] = Fin(0)

\* C2: with N >= 1, when every start failed or returned a negative value the
\* call returns infinity; a finite return needs a start that converged to a
\* non-negative value.
C2_AllUnusableReturnsInf ==
  (pc = "done" /\ N >= 1) =>
     /\ (\A i \in 0..(N - 1) : Failed(i) \/ Negative(i)) => result = Inf
     /\ ~result.inf => \E i \in 0..(N - 1) : Converged(i)

\* C3: a start whose solver call returned a negative value has infinity
\* recorded once its iteration is over, and the value returned is never
\* negative.
C3_NegativeDiscarded ==
  /\ \A i \in 0..(N - 1) : (Complete(i) /\ Negative(i)) => tangles[i] = Inf
  /\ pc = "done" => ~Less(result, Fin(0))

\* C3 witness: a call that returned 1 although one of its starts came back negative
C3_Witness ==
  /\ pc = "done"
  /\ result = Fin(1)
  /\ \E i \in 0..(N - 1) : Negative(i)

\* C4, in every state: no exception leaves a call with N >= 1; the solver has
\* been called once for each start begun, in index order; and a call that
\* has returned made N solver calls and returned the least of the N
\* recorded values.
C4Inv ==
  /\ N >= 1 => pc # "raised"
  /\ calls = j + (IF pc = "discard" THEN 1 ELSE 0)
  /\ Len(outs) = calls
  /\ pc = "done" =>
       /\ calls = N
       /\ j = N
       /\ \A i \in 0..(N - 1) : LessEq(result, tangles[i])
       /\ \E i \in 0..(N - 1) : result = tangles[i]

\* C4, in every step: the index only moves to its successor, and only when
\* the value of the current start has been recorded (its line-144 test);
\* a solver call is made only for the current index, after all earlier
\* starts are complete.
C4Step ==
  /\ j' # j => (j' = j + 1 /\ pc = "discard" /\ Len(outs) = j + 1)
  /\ calls' # calls => (calls' = calls + 1 /\ pc = "solve" /\ calls = j /\ j' = j)

\* C4: a solver failure neither aborts the search nor reaches the caller: the
\* starts run one after the other in index order with one solver call each,
\* and every call with N >= 1 ends by returning the minimum of the N recorded
\* values.
C4_SequentialToCompletion ==
  /\ []C4Inv
  /\ [][C4Step]_vars
  /\ <>(N = 0 \/ pc = "done")

\* C4 witness: a call that returned after a failure on a start that was not its last
C4_Witness ==
  /\ pc = "done"
  /\ N >= 2
  /\ \E i \in 0..(N - 2) : Failed(i) /\ Converged(i + 1)

\* C5: for one sequence of solver outcomes, the value returned with the
\* first n+1 starts is at most the value returned with the first n starts
\* (n >= 1): the array a call with n starts reduces is the first n cells
\* of tangles.
C5_MonotoneInN ==
  /\ \A n \in 1..(j - 1) :
       LessEq(np_min(Prefix(tangles, n + 1)), np_min(Prefix(tangles, n)))
  /\ (pc = "done" /\ N >= 2) => LessEq(result, np_min(Prefix(tangles, N - 1)))

\* C5 witness: a call whose last start lowered the minimum
C5_Witness ==
  /\ pc = "done"
  /\ N >= 2
  /\ Less(result, np_min(Prefix(tangles, N - 1)))

\* a cell of tangles is final once its start is complete, so the first n
\* cells are what a call with n starts reduces
CompleteCellsFinal ==
  [][\A i \in 0..(N - 1) : Complete(i) => tangles'[i] = tangles[i]]_vars

-----------------------------------------------------------------------------
(* Properties of the vector codec *)

Even(n) == n % 2 = 0

\* C6: complex_to_real(real_to_complex(v)) = v for every even-length real v,
\* real_to_complex(complex_to_real(c)) = c for every complex c, where
\* real_to_complex sends a vector of length 2k to the k numbers
\* v[i] + j*v[k+i] and complex_to_real lists the real parts, then the
\* imaginary parts.
C6_CodecRoundTrip ==
  /\ (codec.op = "rt_real" /\ Even(Len(z))) => codec.out = Ok(z)
  /\ codec.op = "rt_complex" => codec.out = Ok(w)
  /\ (codec.op = "real_to_complex" /\ Even(Len(z))) =>
       LET k == Len(z) \div 2
       IN /\ codec.out.raised = "none"
          /\ Len(codec.out.val) = k
          /\ \A i \in 1..k : codec.out.val[i] = Cx(z[i], z[k + i])
  /\ codec.op = "complex_to_real" =>
       LET k == Len(w)
       IN /\ Len(codec.out.val) = 2 * k
          /\ \A i \in 1..k : codec.out.val[i] = w[i].re /\ codec.out.val[k + i] = w[i].im

\* C6 witness: a real vector of length 4 that went through both conversions
\* and whose second and third entries differ
C6_Witness ==
  /\ codec.op = "rt_real"
  /\ Len(z) = 4
  /\ z[2] # z[3]
  /\ codec.out = Ok(z)

\* C7: real_to_complex raises for every real vector of odd length and never
\* returns a complex vector for one.
C7_OddLengthRaises ==
  (codec.op = "real_to_complex" /\ ~Even(Len(z))) => codec.out.raised # "none"

\* What the code does with an odd length: lengths 1 and 3 return (the empty
\* vector, and 2 numbers sharing the real part z[0]); from length 5 on it raises.
OddLengthOutcome ==
  (codec.op = "real_to_complex" /\ ~Even(Len(z))) =>
     /\ Len(z) = 1 => codec.out = Ok(<<>>)
     /\ Len(z) = 3 => codec.out = Ok(<<Cx(z[1], z[2]), Cx(z[1], z[3])>>)
     /\ Len(z) >= 5 => codec.out = Raise("ValueError")

-----------------------------------------------------------------------------
(* Properties of the analytic tangle evaluator *)

\* C9: theoretical_tangle returns exactly 0 for each of the 8 computational
\* basis states e_k (amplitude 1 at index k, 0 elsewhere).
C9_BasisStateTangleZero ==
  \A k \in 0..7 : (tau.done /\ phi = BasisState(k)) => tau.v = 0

\* C9 witness: theoretical_tangle was applied to e_7
C9_Witness == tau.done /\ phi = BasisState(7) /\ tau.v = 0

\* the evaluator is not constantly 0: the unnormalised GHZ vector e_0 + e_7 gives 4
GhzTangle ==
  (tau.done /\ phi = [i \in 0..7 |-> IF i \in {0, 7} THEN Cx(1, 0) ELSE CZero])
     => tau.v = 4

-----------------------------------------------------------------------------
(* Properties of the reconstruction constraint *)

\* state k of the parameter vector, read from the block at offset
\* Np + k*2*Nc: entry i is x[off + i] + j*x[off + Nc + i] (indices from 0)
Decoded(k, i) ==
  LET off == Np + k * 2 * Nc
  IN Cx(x[off + i + 1], x[off + Nc + i + 1])

RECURSIVE Reconstructed(_, _, _)
Reconstructed(row, col, n) ==
  IF n = 0 THEN CZero
  ELSE CAdd(Reconstructed(row, col, n - 1),
            CMul(CReal(x[n]), CMul(Decoded(n - 1, row), CConj(Decoded(n - 1, col)))))

\* C8: when rho is built directly from the weights and state vectors that x
\* encodes, every one of the 2*Nc^2 components of cons3(x) is zero.
C8_DirectRhoZeroResidual ==
  (cons.done /\ direct = "direct") =>
     /\ cons.out.raised = "none"
     /\ \A n \in 0..(2 * Nc * Nc - 1) : cons.out.val[n] = 0

\* the residual is zero whenever the state vectors fit the rows of c
DirectRhoZeroResidualWhenRowsFit ==
  (cons.done /\ direct = "direct" /\ Np <= Nc) =>
     /\ cons.out.raised = "none"
     /\ \A n \in 0..(2 * Nc * Nc - 1) : cons.out.val[n] = 0

\* C10: for every Np >= 1 and Nc, Np > Nc included, cons3 evaluates without
\* error and returns 2*Nc^2 numbers: index row*Nc+col holds the real part and
\* index Nc^2+row*Nc+col the imaginary part of
\* (sum over the Np states k of p_k * c_k[row] * conj(c_k[col])) - rho[row][col].
C10_Cons3Layout ==
  cons.done =>
     /\ cons.out.raised = "none"
     /\ DOMAIN cons.out.val = 0..(2 * Nc * Nc - 1)
     /\ \A row \in 0..(Nc - 1) : \A col \in 0..(Nc - 1) :
          LET want == CSub(Reconstructed(row, col, Np), rho[row][col])
          IN /\ cons.out.val[row * Nc + col] = want.re
             /\ cons.out.val[Nc * Nc + row * Nc + col] = want.im

\* the layout holds whenever the state vectors fit the rows of c, and
\* otherwise the call raises IndexError
Cons3LayoutWhenRowsFit ==
  cons.done =>
     IF Np > Nc THEN cons.out = Raise("IndexError")
     ELSE /\ cons.out.raised = "none"
          /\ DOMAIN cons.out.val = 0..(2 * Nc * Nc - 1)
          /\ \A row \in 0..(Nc - 1) : \A col \in 0..(Nc - 1) :
               LET want == CSub(Reconstructed(row, col, Np), rho[row][col])
               IN /\ cons.out.val[row * Nc + col] = want.re
                  /\ cons.out.val[Nc * Nc + row * Nc + col] = want.im

=============================================================================
